---------------------------- MODULE Spec2Model ----------------------------
(***************************************************************************)
(* The document repository of org-sog-auth (src/org-sog-auth/src/db.rs):   *)
(* the DB methods fetch_users, create_user, get_user, edit_user and        *)
(* delete_user, called concurrently by HTTP handlers against one MongoDB   *)
(* collection.  org-sog-blog/src/db.rs is the same code over blog fields.  *)
(*                                                                         *)
(* Every store call (create_index, insert_one, find_one,                   *)
(* find_one_and_update, delete_one, find) is one atomic step of the store. *)
(* create_user is the only method with more than one store call, so it is  *)
(* the only one with intermediate positions.                               *)
(***************************************************************************)
EXTENDS Integers, Sequences, FiniteSets, TLC

(***************************************************************************)
(* Bounds of the model.                                                    *)
(***************************************************************************)
\* Concurrent callers (request handlers in flight).
NumThreads == 2
\* Documents ever inserted (ObjectIds ever generated).
MaxIds == 2
\* Utc::now() reads a wall clock of 0..MaxClock ticks; a tick is finer than
\* the millisecond a BSON datetime keeps.
MaxClock == 2
\* Clock ticks per millisecond.
TicksPerMs == 2
\* i64 is modelled at IntBits bits: same two's-complement arithmetic, narrow
\* enough for the products to be computed.
IntBits == 5

\* An ObjectId is 12 bytes, written as 24 hexadecimal digits.
OidHexLen == 24

Threads == 1..NumThreads
Names == {"alice", "bob"}
Uids == {"u1", "u2"}
None == "None"

VARIABLES
    docs,     \* the collection, in the store's natural (insertion) order
    index,    \* whether the unique index on "name" exists
    nextId,   \* how many ObjectIds have been generated
    pc,       \* per caller: its position in create_user, or "ready"
    local,    \* per caller: create_user's locals
    wins,     \* history: per name, the create_user calls that returned success
    last      \* the call that returned last: its arguments and its result

vars == <<docs, index, nextId, pc, local, wins, last>>

(***************************************************************************)
(* ObjectId <-> string.  An ObjectId is kept as its 24 nibbles.            *)
(***************************************************************************)
HexLower == <<"0","1","2","3","4","5","6","7","8","9","a","b","c","d","e","f">>
HexUpper == <<"0","1","2","3","4","5","6","7","8","9","A","B","C","D","E","F">>

\* The value of one hexadecimal digit, either case; -1 for any other character.
NibbleOf(c) ==
    IF \E i \in 1..16 : HexLower[i] = c
    THEN (CHOOSE i \in 1..16 : HexLower[i] = c) - 1
    ELSE IF \E i \in 1..16 : HexUpper[i] = c
         THEN (CHOOSE i \in 1..16 : HexUpper[i] = c) - 1
         ELSE -1

\* (mutant) the length is not checked.
from_str_any_length(s) ==
    IF \A i \in 1..Len(s) : NibbleOf(s[i]) >= 0
    THEN [ok |-> TRUE, oid |-> [i \in 1..Len(s) |-> NibbleOf(s[i])]]
    ELSE [ok |-> FALSE, oid |-> <<>>]

\* ObjectId::from_str: exactly 24 hexadecimal digits, either case.
from_str(s) ==
    IF Len(s) = OidHexLen /\ \A i \in 1..Len(s) : NibbleOf(s[i]) >= 0
    THEN [ok |-> TRUE, oid |-> [i \in 1..OidHexLen |-> NibbleOf(s[i])]]
    ELSE [ok |-> FALSE, oid |-> <<>>]

\* ObjectId::to_hex (and Display): 24 lower-case digits.
to_hex(oid) == [i \in 1..OidHexLen |-> HexLower[oid[i] + 1]]

\* (mutant) the driver generates the same ObjectId again.
NewOid_repeated(n) ==
    [i \in 1..OidHexLen |-> IF i = OidHexLen THEN 10 ELSE 0]

\* The n-th ObjectId the driver generates: distinct for distinct n.
NewOid(n) ==
    [i \in 1..OidHexLen |->
        IF i = OidHexLen THEN (9 + n) % 16
        ELSE IF i = OidHexLen - 1 THEN (9 + n) \div 16
        ELSE 0]

(***************************************************************************)
(* Times.  Utc::now() reads the clock in ticks; a BSON datetime keeps      *)
(* whole milliseconds.                                                     *)
(***************************************************************************)
ToBsonDateTime(now) == now \div TicksPerMs

(***************************************************************************)
(* Documents and their mapping.                                            *)
(***************************************************************************)
\* (mutant) updatedAt is left at the epoch.
create_user_document_undated(body, now) ==
    [createdAt |-> ToBsonDateTime(now),
     updatedAt |-> 0,
     name |-> body.name,
     uid |-> body.uid]

\* create_user_document: the two dates, then the serialized body over them.
create_user_document(body, now) ==
    [createdAt |-> ToBsonDateTime(now),
     updatedAt |-> ToBsonDateTime(now),
     name |-> body.name,
     uid |-> body.uid]

\* doc_to_user: the stored document as the response's entity.
doc_to_user(d) ==
    [id |-> to_hex(d.id), name |-> d.name, uid |-> d.uid,
     createdAt |-> d.createdAt, updatedAt |-> d.updatedAt]

(***************************************************************************)
(* Schemas.  The schema structs are not among the repository's files here; *)
(* their serialization is taken from the specification: an update writes   *)
(* only the fields that are present.                                       *)
(***************************************************************************)
CreateBodies == [name : Names, uid : Uids]
UpdateBodies == [name : Names \cup {None}, uid : Uids \cup {None}]

\* bson::to_document(body) of an update schema: the present fields only.
to_document(body) ==
    [f \in {g \in DOMAIN body : body[g] # None} |-> body[f]]

(***************************************************************************)
(* i64 arithmetic of fetch_users.                                          *)
(***************************************************************************)
I64Min == -(2 ^ (IntBits - 1))
I64Max == 2 ^ (IntBits - 1) - 1
Wrap(x) == ((x - I64Min) % (2 ^ IntBits)) + I64Min

\* u64::try_from((page - 1) * limit).unwrap(): an overflowing product panics
\* in a build with overflow checks and wraps in one without; a negative
\* value panics in the unwrap.
skip_of(limit, page, wraps) ==
    LET p == (page - 1) * limit
        v == IF p \in I64Min..I64Max THEN p ELSE Wrap(p)
    IN IF p \notin I64Min..I64Max /\ ~wraps THEN [panic |-> TRUE, skip |-> 0]
       ELSE IF v < 0 THEN [panic |-> TRUE, skip |-> 0]
       ELSE [panic |-> FALSE, skip |-> v]

(***************************************************************************)
(* The store.                                                              *)
(***************************************************************************)
Ids == {docs[i].id : i \in 1..Len(docs)}
Position(oid) == CHOOSE i \in 1..Len(docs) : docs[i].id = oid
HoldsName(n) == \E i \in 1..Len(docs) : docs[i].name = n
\* (mutant) the documents before the matched one go with it.
Remove_through(s, i) == SubSeq(s, i + 1, Len(s))
\* (mutant) nothing is removed.
Remove_nothing(s, i) == s
\* delete_one: the collection without its i-th document.
Remove(s, i) == SubSeq(s, 1, i - 1) \o SubSeq(s, i + 1, Len(s))
Min(a, b) == IF a < b THEN a ELSE b

\* (mutant) the limit is not applied.
find_unlimited(skip, limit) == SubSeq(docs, skip + 1, Len(docs))

\* find(None, {skip, limit}): natural order; limit 0 means no limit, a
\* negative limit means its absolute value.
find(skip, limit) ==
    LET n == IF limit = 0 THEN Len(docs) ELSE IF limit < 0 THEN -limit ELSE limit
    IN SubSeq(docs, skip + 1, Min(Len(docs), skip + n))

\* (mutant) the update also refreshes updatedAt.
set_fields_touch(d, patch) ==
    [f \in DOMAIN d |-> IF f \in DOMAIN patch THEN patch[f]
                        ELSE IF f = "updatedAt" THEN d[f] + 1 ELSE d[f]]

\* (mutant) the update replaces the entity fields: those the patch lacks
\* become empty.
set_fields_replace(d, patch) ==
    [f \in DOMAIN d |-> IF f \in DOMAIN patch THEN patch[f]
                        ELSE IF f \in {"name", "uid"} THEN "" ELSE d[f]]

\* {"$set": patch} applied to one document.
set_fields(d, patch) ==
    [f \in DOMAIN d \cup DOMAIN patch |-> IF f \in DOMAIN patch THEN patch[f] ELSE d[f]]

\* (mutant) the index does not cover updates.
violates_unique_never(i, patch) == FALSE

\* The unique index refuses a write that gives document i a name another
\* document holds.
violates_unique(i, patch) ==
    /\ index
    /\ "name" \in DOMAIN patch
    /\ \E j \in 1..Len(docs) : j # i /\ docs[j].name = patch.name

\* (mutant) no index is consulted.
rejects_insert_never(name) == FALSE

\* The unique index refuses an insert whose name a document holds.
rejects_insert(name) == index /\ HoldsName(name)

\* (mutant) every failed insert_one is a query error.
insert_error_unread(message) == "MongoQueryError"

\* create_user's reading of a failed insert_one: a duplicate-key error by its
\* message ("E11000 duplicate key error collection"), any other as a query error.
insert_error(message) ==
    IF message = "E11000 duplicate key error collection"
    THEN "MongoDuplicateError"
    ELSE "MongoQueryError"

\* (mutant) edit_user reads a failed store call as create_user does.
update_error_translated(message) == insert_error(message)

\* edit_user's reading of a failed find_one_and_update: map_err(MongoQueryError),
\* whatever the message.
update_error(message) == "MongoQueryError"

\* (mutant) deleting nothing is a success.
delete_result_lenient(deleted_count, id) ==
    [status |-> "success", id |-> <<>>, data |-> <<>>]

\* (mutant) whatever was deleted, nothing was found.
delete_result_missing(deleted_count, id) ==
    [status |-> "NotFoundError", id |-> id, data |-> <<>>]

\* delete_user's reading of deleted_count.
delete_result(deleted_count, id) ==
    IF deleted_count = 0 THEN [status |-> "NotFoundError", id |-> id, data |-> <<>>]
    ELSE [status |-> "success", id |-> <<>>, data |-> <<>>]

NoLocal == [body |-> <<>>, document |-> <<>>, new_id |-> <<>>, start |-> 0, datetime |-> 0]
\* last: the arguments (op, id, body, limit, page), when create_user was
\* entered (start) and what it read from the clock (datetime; for edit_user
\* both are the instant of the call), the result
\* (status, err_id, data), and what happened
\* on the way: the store calls issued (calls), whether the store failed one
\* (fault), whether the body could not be serialized (unserializable).
NoLast == [op |-> None, id |-> <<>>, body |-> <<>>, limit |-> 0, page |-> 0,
           start |-> 0, datetime |-> 0, status |-> None, err_id |-> <<>>, data |-> <<>>,
           calls |-> 0, fault |-> FALSE, unserializable |-> FALSE]

Ok(data) == [status |-> "success", id |-> <<>>, data |-> data]
Err(kind, id) == [status |-> kind, id |-> id, data |-> <<>>]

Init ==
    /\ docs = <<>>
    /\ index = FALSE
    /\ nextId = 0
    /\ pc = [t \in Threads |-> "ready"]
    /\ local = [t \in Threads |-> NoLocal]
    /\ wins = [n \in Names |-> 0]
    /\ last = NoLast

\* A call returns r after issuing n store calls; f: the store failed one.
Returns(q, r, n, f) ==
    last' = [q EXCEPT !.status = r.status, !.err_id = r.id, !.data = r.data,
                      !.calls = n, !.fault = f]

\* create_user returns: its locals are dropped.
CreateReturns(t, r, n, f) ==
    /\ Returns([NoLast EXCEPT !.op = "create", !.body = local[t].body,
                              !.start = local[t].start,
                              !.datetime = local[t].datetime], r, n, f)
    /\ pc' = [pc EXCEPT ![t] = "ready"]
    /\ local' = [local EXCEPT ![t] = NoLocal]
    /\ wins' = IF r.status = "success"
               THEN [wins EXCEPT ![local[t].body.name] = @ + 1]
               ELSE wins

(***************************************************************************)
(* create_user                                                             *)
(***************************************************************************)
\* Entry, at instant start: create_user_document reads the clock (now) and
\* builds the document.
create_user(t, body, start, now) ==
    /\ pc[t] = "ready"
    /\ last = NoLast
    /\ start <= now
    /\ local' = [local EXCEPT ![t] =
          [body |-> body, document |-> create_user_document(body, now),
           new_id |-> <<>>, start |-> start, datetime |-> now]]
    /\ pc' = [pc EXCEPT ![t] = "create_index"]
    /\ UNCHANGED <<docs, index, nextId, wins, last>>

\* (mutant) the result of create_index is dropped: the insert follows a
\* failed call too.
create_index_unchecked(t, fault) ==
    /\ pc[t] = "create_index"
    /\ last = NoLast
    /\ index' = (index \/ ~fault)
    /\ pc' = [pc EXCEPT ![t] = "insert_one"]
    /\ UNCHANGED <<docs, nextId, local, wins, last>>

\* create_index({name: 1}, unique): a no-op when the index exists; building it
\* fails when two documents already share a name.
create_index(t, fault) ==
    /\ pc[t] = "create_index"
    /\ last = NoLast
    /\ IF fault \/ (~index /\ \E i, j \in 1..Len(docs) : i # j /\ docs[i].name = docs[j].name)
       THEN /\ CreateReturns(t, Err("MongoQueryError", <<>>), 1, fault)
            /\ UNCHANGED index
       ELSE /\ index' = TRUE
            /\ pc' = [pc EXCEPT ![t] = "insert_one"]
            /\ UNCHANGED <<local, wins, last>>
    /\ UNCHANGED <<docs, nextId>>

\* insert_one: the driver generates the _id; the unique index rejects a held
\* name with an E11000 error, which create_user recognises by its message.
insert_one(t, fault) ==
    /\ pc[t] = "insert_one"
    /\ last = NoLast
    /\ IF fault
       THEN /\ CreateReturns(t, Err(insert_error("connection closed"), <<>>), 2, TRUE)
            /\ UNCHANGED <<docs, nextId>>
       ELSE IF rejects_insert(local[t].document.name)
       THEN /\ CreateReturns(t, Err(insert_error("E11000 duplicate key error collection"), <<>>), 2, FALSE)
            /\ UNCHANGED <<docs, nextId>>
       ELSE /\ nextId < MaxIds
            /\ nextId' = nextId + 1
            /\ docs' = Append(docs, [id |-> NewOid(nextId + 1)] @@ local[t].document)
            /\ local' = [local EXCEPT ![t].new_id = NewOid(nextId + 1)]
            /\ pc' = [pc EXCEPT ![t] = "find_one"]
            /\ UNCHANGED <<wins, last>>
    /\ UNCHANGED index

\* (mutant) the document create_user built, under the new _id.
user_doc_from_request(t) == [id |-> local[t].new_id] @@ local[t].document

\* user_doc: the document find_one({_id: new_id}) found in the collection.
user_doc(t) == docs[Position(local[t].new_id)]

\* The read-back: find_one by the new _id, then doc_to_user.
find_one(t, fault) ==
    /\ pc[t] = "find_one"
    /\ last = NoLast
    /\ IF fault
       THEN CreateReturns(t, Err("MongoQueryError", <<>>), 3, TRUE)
       ELSE IF local[t].new_id \notin Ids
       THEN CreateReturns(t, Err("NotFoundError", to_hex(local[t].new_id)), 3, FALSE)
       ELSE CreateReturns(t, Ok(doc_to_user(user_doc(t))), 3, FALSE)
    /\ UNCHANGED <<docs, index, nextId>>

(***************************************************************************)
(* get_user, edit_user, delete_user, fetch_users: one store call each.     *)
(***************************************************************************)
get_user(t, id, fault) ==
    LET q == [NoLast EXCEPT !.op = "get", !.id = id]
        p == from_str(id)
    IN /\ pc[t] = "ready"
       /\ last = NoLast
       /\ IF ~p.ok THEN Returns(q, Err("InvalidIDError", id), 0, FALSE)
          ELSE IF fault THEN Returns(q, Err("MongoQueryError", <<>>), 1, TRUE)
          ELSE IF p.oid \notin Ids THEN Returns(q, Err("NotFoundError", id), 1, FALSE)
          ELSE Returns(q, Ok(doc_to_user(docs[Position(p.oid)])), 1, FALSE)
       /\ UNCHANGED <<docs, index, nextId, pc, local, wins>>

\* find_one_and_update({_id}, {"$set": to_document(body)}, ReturnDocument::After).
\* now is the instant of the call: edit_user does not read the clock.
edit_user(t, id, body, now, unserializable, fault) ==
    LET q == [NoLast EXCEPT !.op = "edit", !.id = id, !.body = body,
                          !.start = now, !.datetime = now,
                          !.unserializable = unserializable]
        p == from_str(id)
        patch == to_document(body)
    IN /\ pc[t] = "ready"
       /\ last = NoLast
       /\ IF ~p.ok
          THEN Returns(q, Err("InvalidIDError", id), 0, FALSE) /\ UNCHANGED docs
          ELSE IF unserializable
          THEN Returns(q, Err("MongoSerializeBsonError", <<>>), 0, FALSE) /\ UNCHANGED docs
          ELSE IF fault
          THEN Returns(q, Err(update_error("connection closed"), <<>>), 1, TRUE) /\ UNCHANGED docs
          ELSE IF p.oid \notin Ids
          THEN Returns(q, Err("NotFoundError", id), 1, FALSE) /\ UNCHANGED docs
          ELSE IF violates_unique(Position(p.oid), patch)
          THEN Returns(q, Err(update_error("E11000 duplicate key error collection"), <<>>), 1, FALSE)
               /\ UNCHANGED docs
          ELSE /\ docs' = [docs EXCEPT ![Position(p.oid)] = set_fields(@, patch)]
               /\ Returns(q, Ok(doc_to_user(set_fields(docs[Position(p.oid)], patch))), 1, FALSE)
       /\ UNCHANGED <<index, nextId, pc, local, wins>>

delete_user(t, id, fault) ==
    LET q == [NoLast EXCEPT !.op = "delete", !.id = id]
        p == from_str(id)
    IN /\ pc[t] = "ready"
       /\ last = NoLast
       /\ IF ~p.ok
          THEN Returns(q, Err("InvalidIDError", id), 0, FALSE) /\ UNCHANGED docs
          ELSE IF fault
          THEN Returns(q, Err("MongoQueryError", <<>>), 1, TRUE) /\ UNCHANGED docs
          ELSE IF p.oid \notin Ids
          THEN Returns(q, delete_result(0, id), 1, FALSE) /\ UNCHANGED docs
          ELSE /\ docs' = Remove(docs, Position(p.oid))
               /\ Returns(q, delete_result(1, id), 1, FALSE)
       /\ UNCHANGED <<index, nextId, pc, local, wins>>

\* find with skip and limit, then the cursor is drained; an item the cursor
\* yields as an error is unwrapped.
fetch_users(t, limit, page, wraps, fault, item_fault) ==
    LET q == [NoLast EXCEPT !.op = "fetch", !.limit = limit, !.page = page]
        s == skip_of(limit, page, wraps)
        found == IF s.panic THEN <<>> ELSE find(s.skip, limit)
        json_result == [i \in 1..Len(found) |-> doc_to_user(found[i])]
    IN /\ pc[t] = "ready"
       /\ last = NoLast
       /\ IF s.panic THEN Returns(q, Err("panic", <<>>), 0, FALSE)
          ELSE IF fault THEN Returns(q, Err("MongoQueryError", <<>>), 1, TRUE)
          ELSE IF item_fault /\ Len(found) > 0 THEN Returns(q, Err("panic", <<>>), 1, TRUE)
          ELSE Returns(q, Ok([results |-> Len(json_result), users |-> json_result]), 1, FALSE)
       /\ UNCHANGED <<docs, index, nextId, pc, local, wins>>

\* The handler sends the returned value; nothing keeps it.  Sending commutes
\* with every other step, so it is taken before the next one.
respond ==
    /\ last # NoLast
    /\ last' = NoLast
    /\ UNCHANGED <<docs, index, nextId, pc, local, wins>>

(***************************************************************************)
(* The blog kind (org-sog-blog): the same repository over documents with   *)
(* a unique title and the optional fields published and category.  An      *)
(* optional value is a sequence: <<>> for None (in a stored document:      *)
(* null), <<v>> for Some(v).  summary and content are carried like title   *)
(* and are left out.                                                       *)
(***************************************************************************)
Titles == {"t1", "t2"}
Categories == {"news"}
Some(v) == <<v>>
unwrap_or(o, v) == IF o = <<>> THEN v ELSE o[1]

BlogCreateBodies ==
    [title : Titles,
     published : {<<>>, Some(TRUE), Some(FALSE)},
     category : {<<>>} \cup {Some(c) : c \in Categories}]
BlogUpdateBodies ==
    [title : {<<>>} \cup {Some(x) : x \in Titles},
     published : {<<>>, Some(TRUE), Some(FALSE)},
     category : {<<>>} \cup {Some(c) : c \in Categories}]

\* bson::to_bson(body) of a create schema: title, and the optional fields
\* that are present.
to_bson(body) ==
    [f \in {"title"} \cup {g \in {"published", "category"} : body[g] # <<>>} |-> body[f]]

\* bson::to_document(body) of an update schema: the fields that are present.
to_document_blog(body) ==
    [f \in {g \in DOMAIN body : body[g] # <<>>} |->
        IF f = "title" THEN body[f][1] ELSE body[f]]

\* (mutant) the document is built with the dates only.
create_blog_document_bare(body, published, category, now) ==
    to_bson(body) @@
    [createdAt |-> ToBsonDateTime(now),
     updatedAt |-> ToBsonDateTime(now)]

\* create_blog_document: the dates and the resolved published and category,
\* then the serialized body over them (extend).
create_blog_document(body, published, category, now) ==
    to_bson(body) @@
    [createdAt |-> ToBsonDateTime(now),
     updatedAt |-> ToBsonDateTime(now),
     published |-> Some(published),
     category |-> Some(category)]

\* A stored document read as a BlogModel: an optional field that is absent
\* or null is None.
optional(d, f) == IF f \in DOMAIN d THEN d[f] ELSE <<>>

\* doc_to_blog: category and published are unwrapped, which panics on None.
doc_to_blog(d) ==
    IF optional(d, "category") = <<>> \/ optional(d, "published") = <<>>
    THEN [panic |-> TRUE]
    ELSE [panic |-> FALSE,
          id |-> to_hex(d.id), title |-> d.title,
          category |-> optional(d, "category")[1],
          published |-> optional(d, "published")[1],
          createdAt |-> d.createdAt, updatedAt |-> d.updatedAt]

\* The mapped document as the call's result.
BlogResult(d) ==
    IF doc_to_blog(d).panic THEN Err("panic", <<>>) ELSE Ok(doc_to_blog(d))

HoldsTitle(x) == \E i \in 1..Len(docs) : docs[i].title = x

\* create_blog, with one call at a time and a store that answers: the
\* defaults are resolved, the document built, the index ensured, the
\* document inserted and read back.
create_blog(t, body, now) ==
    LET q == [NoLast EXCEPT !.op = "create", !.body = body,
                          !.start = now, !.datetime = now]
        published == unwrap_or(body.published, FALSE)
        category == unwrap_or(body.category, "")
        document == create_blog_document(body, published, category, now)
        new_id == NewOid(nextId + 1)
    IN /\ pc[t] = "ready"
       /\ last = NoLast
       /\ index' = TRUE
       /\ IF HoldsTitle(document.title)
          THEN /\ Returns(q, Err(insert_error("E11000 duplicate key error collection"), <<>>), 2, FALSE)
               /\ UNCHANGED <<docs, nextId>>
          ELSE /\ nextId < MaxIds
               /\ nextId' = nextId + 1
               /\ docs' = Append(docs, [id |-> new_id] @@ document)
               /\ Returns(q, BlogResult(docs'[Len(docs')]), 3, FALSE)
       /\ UNCHANGED <<pc, local, wins>>

get_blog(t, id) ==
    LET q == [NoLast EXCEPT !.op = "get", !.id = id]
        p == from_str(id)
    IN /\ pc[t] = "ready"
       /\ last = NoLast
       /\ IF ~p.ok THEN Returns(q, Err("InvalidIDError", id), 0, FALSE)
          ELSE IF p.oid \notin Ids THEN Returns(q, Err("NotFoundError", id), 1, FALSE)
          ELSE Returns(q, BlogResult(docs[Position(p.oid)]), 1, FALSE)
       /\ UNCHANGED <<docs, index, nextId, pc, local, wins>>

edit_blog(t, id, body) ==
    LET q == [NoLast EXCEPT !.op = "edit", !.id = id, !.body = body]
        p == from_str(id)
        patch == to_document_blog(body)
    IN /\ pc[t] = "ready"
       /\ last = NoLast
       /\ IF ~p.ok
          THEN Returns(q, Err("InvalidIDError", id), 0, FALSE) /\ UNCHANGED docs
          ELSE IF p.oid \notin Ids
          THEN Returns(q, Err("NotFoundError", id), 1, FALSE) /\ UNCHANGED docs
          ELSE IF /\ index
                  /\ "title" \in DOMAIN patch
                  /\ \E j \in 1..Len(docs) : docs[j].id # p.oid /\ docs[j].title = patch.title
          THEN Returns(q, Err("MongoQueryError", <<>>), 1, FALSE) /\ UNCHANGED docs
          ELSE /\ docs' = [docs EXCEPT ![Position(p.oid)] = set_fields(@, patch)]
               /\ Returns(q, BlogResult(set_fields(docs[Position(p.oid)], patch)), 1, FALSE)
       /\ UNCHANGED <<index, nextId, pc, local, wins>>

delete_blog(t, id) ==
    LET q == [NoLast EXCEPT !.op = "delete", !.id = id]
        p == from_str(id)
    IN /\ pc[t] = "ready"
       /\ last = NoLast
       /\ IF ~p.ok
          THEN Returns(q, Err("InvalidIDError", id), 0, FALSE) /\ UNCHANGED docs
          ELSE IF p.oid \notin Ids
          THEN Returns(q, delete_result(0, id), 1, FALSE) /\ UNCHANGED docs
          ELSE /\ docs' = Remove(docs, Position(p.oid))
               /\ Returns(q, delete_result(1, id), 1, FALSE)
       /\ UNCHANGED <<index, nextId, pc, local, wins>>

fetch_blogs(t, limit, page) ==
    LET q == [NoLast EXCEPT !.op = "fetch", !.limit = limit, !.page = page]
        s == skip_of(limit, page, FALSE)
        found == IF s.panic THEN <<>> ELSE find(s.skip, limit)
        json_result == [i \in 1..Len(found) |-> doc_to_blog(found[i])]
    IN /\ pc[t] = "ready"
       /\ last = NoLast
       /\ IF s.panic \/ \E i \in 1..Len(found) : json_result[i].panic
          THEN Returns(q, Err("panic", <<>>), 1, FALSE)
          ELSE Returns(q, Ok([results |-> Len(json_result), blogs |-> json_result]), 1, FALSE)
       /\ UNCHANGED <<docs, index, nextId, pc, local, wins>>

(***************************************************************************)
(* Inputs.                                                                 *)
(***************************************************************************)
GoodIds == {to_hex(NewOid(n)) : n \in 1..MaxIds}
\* The first id in upper case: the same ObjectId, another string.
UpperId == [i \in 1..OidHexLen |-> HexUpper[NewOid(1)[i] + 1]]
\* Too short, and of the right length with a character that is no digit.
BadIds == {SubSeq(to_hex(NewOid(1)), 1, OidHexLen - 1),
           [to_hex(NewOid(1)) EXCEPT ![1] = "g"]}
IdStrings == GoodIds \cup {UpperId} \cup BadIds

BigLimit == 2 ^ (IntBits - 2)
Limits == {1, 2, BigLimit}
Pages == {1, 2, 3, 5}

(***************************************************************************)
(* Specifications.                                                         *)
(***************************************************************************)
\* Caller t may step: always when calls run concurrently, and only while no
\* other caller is inside a call when they run one at a time.
MayStep(t, concurrent) ==
    concurrent \/ \A u \in Threads \ {t} : pc[u] = "ready"

\* One step of caller t.  F: the outcomes a store call may have (TRUE: it
\* fails); T: the instants Utc::now() may return.
Step(t, F, T, concurrent) ==
    \/ \E b \in CreateBodies, start, now \in T :
          MayStep(t, concurrent) /\ create_user(t, b, start, now)
    \/ \E f \in F : MayStep(t, concurrent) /\ create_index(t, f)
    \/ \E f \in F : MayStep(t, concurrent) /\ insert_one(t, f)
    \/ \E f \in F : MayStep(t, concurrent) /\ find_one(t, f)
    \/ \E id \in IdStrings, f \in F : MayStep(t, concurrent) /\ get_user(t, id, f)
    \/ \E id \in IdStrings, b \in UpdateBodies, now \in T, u, f \in F :
          MayStep(t, concurrent) /\ edit_user(t, id, b, now, u, f)
    \/ \E id \in IdStrings, f \in F : MayStep(t, concurrent) /\ delete_user(t, id, f)
    \/ \E l \in Limits, p \in Pages, w \in BOOLEAN, f, g \in F :
          MayStep(t, concurrent) /\ fetch_users(t, l, p, w, f, g)

\* Concurrent callers, a store that answers every call.
Next == respond \/ \E t \in Threads : Step(t, {FALSE}, {0}, TRUE)
Spec == Init /\ [][Next]_vars

\* Concurrent callers, a store that may fail any call.
FaultNext == respond \/ \E t \in Threads : Step(t, BOOLEAN, {0}, TRUE)
FaultSpec == Init /\ [][FaultNext]_vars

\* One call at a time, a store that answers every call.
SeqNext == respond \/ \E t \in Threads : Step(t, {FALSE}, {0}, FALSE)
SeqSpec == Init /\ [][SeqNext]_vars

\* One call at a time, a store that answers every call, and calls made at
\* any instant of the clock, with well-formed identifiers; fetch_users
\* neither reads the clock nor writes.
ClockNext ==
    \/ respond
    \/ \E t \in Threads :
        \/ \E b \in CreateBodies, start, now \in 0..MaxClock :
              MayStep(t, FALSE) /\ create_user(t, b, start, now)
        \/ MayStep(t, FALSE) /\ create_index(t, FALSE)
        \/ MayStep(t, FALSE) /\ insert_one(t, FALSE)
        \/ MayStep(t, FALSE) /\ find_one(t, FALSE)
        \/ \E id \in GoodIds : MayStep(t, FALSE) /\ get_user(t, id, FALSE)
        \/ \E id \in GoodIds, b \in UpdateBodies, now \in 0..MaxClock :
              MayStep(t, FALSE) /\ edit_user(t, id, b, now, FALSE, FALSE)
        \/ \E id \in GoodIds : MayStep(t, FALSE) /\ delete_user(t, id, FALSE)
ClockSpec == Init /\ [][ClockNext]_vars

\* One call at a time, a store that may fail any call.
SeqFaultNext == respond \/ \E t \in Threads : Step(t, BOOLEAN, {0}, FALSE)
SeqFaultSpec == Init /\ [][SeqFaultNext]_vars

\* Concurrent create_user calls only, a store that answers every call.
CreateRaceNext ==
    \/ respond
    \/ \E t \in Threads :
        \/ \E b \in CreateBodies : create_user(t, b, 0, 0)
        \/ create_index(t, FALSE)
        \/ insert_one(t, FALSE)
        \/ find_one(t, FALSE)
CreateRaceSpec == Init /\ [][CreateRaceNext]_vars

\* Concurrent create_user, edit_user and delete_user calls, a store that may
\* fail any call; get_user and fetch_users write nothing.
WriteRaceNext ==
    \/ respond
    \/ \E t \in Threads :
        \/ \E b \in CreateBodies : create_user(t, b, 0, 0)
        \/ \E f \in BOOLEAN : create_index(t, f)
        \/ \E f \in BOOLEAN : insert_one(t, f)
        \/ \E f \in BOOLEAN : find_one(t, f)
        \/ \E id \in IdStrings, b \in UpdateBodies, u, f \in BOOLEAN : edit_user(t, id, b, 0, u, f)
        \/ \E id \in IdStrings, f \in BOOLEAN : delete_user(t, id, f)
WriteRaceSpec == Init /\ [][WriteRaceNext]_vars

\* The blog kind: one call at a time, a store that answers every call.
BlogNext ==
    \/ respond
    \/ \E t \in Threads :
        \/ \E b \in BlogCreateBodies : create_blog(t, b, 0)
        \/ \E id \in IdStrings : get_blog(t, id)
        \/ \E id \in IdStrings, b \in BlogUpdateBodies : edit_blog(t, id, b)
        \/ \E id \in IdStrings : delete_blog(t, id)
        \/ \E l \in {1, 2}, p \in {1, 2} : fetch_blogs(t, l, p)
BlogSpec == Init /\ [][BlogNext]_vars

(***************************************************************************)
(* Properties.                                                             *)
(***************************************************************************)
HexDigits == {"0","1","2","3","4","5","6","7","8","9",
              "a","b","c","d","e","f","A","B","C","D","E","F"}
\* A well-formed identifier: 24 hexadecimal digits.
IsOidString(s) == Len(s) = OidHexLen /\ \A i \in 1..Len(s) : s[i] \in HexDigits
\* The ObjectIds generated so far.
Generated == {NewOid(n) : n \in 1..nextId}
\* The documents named n.
Named(n) == {i \in 1..Len(docs) : docs[i].name = n}
\* Caller t is inside a create_user call.
InCreate(t) == pc[t] # "ready"

\* C1: a create_user call whose name a document already holds returns
\* MongoDuplicateError, and no step of the call changes the collection.
C1_DuplicateCreateFails ==
    [][\A t \in Threads :
        (InCreate(t) /\ pc[t] # "find_one" /\ HoldsName(local[t].body.name)) =>
            /\ docs' = docs
            /\ pc'[t] \in {"insert_one", "ready"}
            /\ pc'[t] = "ready" =>
                 /\ last'.op = "create"
                 /\ last'.body = local[t].body
                 /\ last'.status = "MongoDuplicateError"]_vars

C1_Witness ==
    /\ last.op = "create"
    /\ last.status = "MongoDuplicateError"
    /\ HoldsName(last.body.name)
    /\ \E i \in 1..Len(docs) : docs[i].name = last.body.name /\ docs[i].uid # last.body.uid

\* C2: of the concurrent create_user calls with one name, made against a
\* collection that does not hold it, at most one returns success and the
\* others return MongoDuplicateError; once they have all returned exactly one
\* has returned success and exactly one document has the name.
C2_OneCreateWins ==
    /\ last.op = "create" => last.status \in {"success", "MongoDuplicateError"}
    /\ \A n \in Names :
        /\ wins[n] <= 1
        /\ Cardinality(Named(n)) <= 1
        /\ (last.op = "create" /\ last.body.name = n
              /\ \A t \in Threads : InCreate(t) => local[t].body.name # n)
           => wins[n] = 1 /\ Cardinality(Named(n)) = 1

\* The loser has returned while the winner has inserted and not yet read back.
C2_Witness ==
    /\ last.op = "create"
    /\ last.status = "MongoDuplicateError"
    /\ \E t \in Threads : pc[t] = "find_one" /\ local[t].body.name = last.body.name

\* C3: no two stored documents have the same name.
C3_UniqueNames ==
    \A i, j \in 1..Len(docs) : i # j => docs[i].name # docs[j].name

\* Two documents are stored and an update that would have given one the
\* other's name has been refused.
C3_Witness ==
    /\ Len(docs) = 2
    /\ last.op = "edit"
    /\ last.status = "MongoQueryError"
    /\ ~last.fault
    /\ last.body.name \in Names

\* The ObjectId an identifier string denotes.
OidOf(s) == from_str(s).oid
\* What an update with this body makes of document d.
Updated(d, body) ==
    [id |-> d.id,
     name |-> IF body.name = None THEN d.name ELSE body.name,
     uid |-> IF body.uid = None THEN d.uid ELSE body.uid,
     createdAt |-> d.createdAt,
     updatedAt |-> d.updatedAt]
\* Entity e shows document d.
Shows(e, d) ==
    /\ IsOidString(e.id) /\ OidOf(e.id) = d.id
    /\ e.name = d.name /\ e.uid = d.uid
    /\ e.createdAt = d.createdAt /\ e.updatedAt = d.updatedAt

\* C4: get_user, edit_user and delete_user given a string that is not a
\* well-formed identifier return InvalidIDError with that string, issue no
\* store call, and leave the store as it was; for edit_user whatever the body.
C4_MalformedIdRejected ==
    [][(last = NoLast /\ last'.op \in {"get", "edit", "delete"} /\ ~IsOidString(last'.id)) =>
        /\ last'.status = "InvalidIDError"
        /\ last'.err_id = last'.id
        /\ last'.calls = 0
        /\ ~last'.fault
        /\ docs' = docs /\ index' = index /\ nextId' = nextId]_vars

\* edit_user was given a malformed id and a body that cannot be serialized.
C4_Witness ==
    /\ last.op = "edit"
    /\ ~IsOidString(last.id)
    /\ last.unserializable
    /\ last.status = "InvalidIDError"
    /\ Len(docs) > 0

\* C5: get_user, edit_user and delete_user given a well-formed identifier of
\* no stored document return NotFoundError with that identifier, when the
\* store call is made and does not fail.
C5_AbsentIdNotFound ==
    [][(/\ last = NoLast
        /\ last'.op \in {"get", "edit", "delete"}
        /\ IsOidString(last'.id)
        /\ OidOf(last'.id) \notin Ids
        /\ ~last'.unserializable
        /\ ~last'.fault) =>
        /\ last'.status = "NotFoundError"
        /\ last'.err_id = last'.id
        /\ last'.calls = 1
        /\ docs' = docs]_vars

\* delete_user found nothing under an identifier while another document is stored.
C5_Witness ==
    /\ last.op = "delete"
    /\ last.status = "NotFoundError"
    /\ last.err_id = last.id
    /\ Len(docs) > 0

\* C6: delete_user of a stored document succeeds and removes it; from then on
\* the identifier is never stored again, and delete_user and get_user of it
\* return NotFoundError.
C6_DeletedStaysDeleted ==
    [][/\ \A oid \in Generated : oid \notin Ids => oid \notin Ids'
       /\ (last = NoLast /\ last'.op = "delete" /\ IsOidString(last'.id)
             /\ OidOf(last'.id) \in Ids) =>
            /\ last'.status = "success"
            /\ OidOf(last'.id) \notin Ids'
            /\ Len(docs') = Len(docs) - 1
       /\ (last = NoLast /\ last'.op \in {"delete", "get"} /\ IsOidString(last'.id)
             /\ OidOf(last'.id) \in Generated \ Ids) =>
            /\ last'.status = "NotFoundError"
            /\ docs' = docs]_vars

\* A deleted identifier is looked up after a later create_user has stored
\* another document.
C6_Witness ==
    /\ last.op = "get"
    /\ last.status = "NotFoundError"
    /\ OidOf(last.id) \in Generated \ Ids
    /\ Ids = {NewOid(2)}

\* C7: a successful edit_user sets the fields its body holds and nothing
\* else, in that document only, and returns the document as then stored; a
\* successful get_user returns the stored document and changes nothing.
C7_PartialUpdate ==
    [][/\ (last = NoLast /\ last'.op = "edit" /\ last'.status = "success") =>
            /\ OidOf(last'.id) \in Ids
            /\ docs' = [docs EXCEPT ![Position(OidOf(last'.id))] = Updated(@, last'.body)]
            /\ Shows(last'.data, docs'[Position(OidOf(last'.id))])
       /\ (last = NoLast /\ last'.op = "get" /\ last'.status = "success") =>
            /\ docs' = docs
            /\ OidOf(last'.id) \in Ids
            /\ Shows(last'.data, docs[Position(OidOf(last'.id))])]_vars

\* An update of the uid alone, of one of two documents, has succeeded.
C7_Witness ==
    /\ last.op = "edit"
    /\ last.status = "success"
    /\ last.body.name = None
    /\ last.body.uid \in Uids
    /\ Len(docs) = 2
    /\ \E i \in 1..Len(docs) : docs[i].id = OidOf(last.id) /\ docs[i].uid = last.body.uid

\* The instant a stored datetime denotes, in clock ticks.
Instant(ms) == ms * TicksPerMs
\* Entity e is what a create_user entered at start, reading the clock at
\* datetime, returns for body: the body's fields, and both dates the clock
\* reading cut to whole milliseconds.
EchoesCut(e, body, start, datetime) ==
    /\ e.name = body.name /\ e.uid = body.uid
    /\ e.createdAt = e.updatedAt
    /\ Instant(e.createdAt) <= datetime /\ datetime < Instant(e.createdAt + 1)
    /\ start < Instant(e.createdAt + 1)
\* The same with both dates at or after the start of the call.
EchoesAfterStart(e, body, start) ==
    /\ e.name = body.name /\ e.uid = body.uid
    /\ e.createdAt = e.updatedAt
    /\ Instant(e.createdAt) >= start
\* The dates as read (cut) or as claimed.
Echoes(e, body, start, datetime, cut) ==
    IF cut THEN EchoesCut(e, body, start, datetime)
    ELSE EchoesAfterStart(e, body, start)
\* create_user for a name no document holds: it does not fail, it stores the
\* body under an ObjectId never generated before, and it returns that
\* document.
CreateSucceeds(t, cut) ==
    /\ (pc[t] \in {"create_index", "insert_one"} /\ ~HoldsName(local[t].body.name)) =>
          pc'[t] \in {"insert_one", "find_one"}
    /\ (pc[t] = "insert_one" /\ pc'[t] = "find_one") =>
          /\ local'[t].new_id \notin Generated
          /\ Len(docs') = Len(docs) + 1
          /\ SubSeq(docs', 1, Len(docs)) = docs
          /\ docs'[Len(docs')].id = local'[t].new_id
          /\ Echoes(docs'[Len(docs')], local[t].body, local[t].start, local[t].datetime, cut)
    /\ pc[t] = "find_one" =>
          /\ last'.op = "create"
          /\ last'.body = local[t].body
          /\ last'.status = "success"
          /\ IsOidString(last'.data.id) /\ OidOf(last'.data.id) = local[t].new_id
          /\ Echoes(last'.data, local[t].body, local[t].start, local[t].datetime, cut)

\* C8 as claimed: create_user for a name no document holds succeeds and
\* returns the body's fields, the new identifier, and createdAt = updatedAt
\* at or after the start of the call.
C8_CreateEchoesAfterStart ==
    [][\A t \in Threads : CreateSucceeds(t, FALSE)]_vars

\* C8 as amended: the same, with createdAt = updatedAt the clock reading of
\* the call cut to whole milliseconds, less than a millisecond before the
\* start of the call at the earliest.
C8_CreateEchoesCut ==
    [][\A t \in Threads : CreateSucceeds(t, TRUE)]_vars

\* A second create_user, which read the clock within a millisecond, has
\* returned dates before its start.
C8_Witness ==
    /\ last.op = "create"
    /\ last.status = "success"
    /\ last.start = last.datetime
    /\ Instant(last.data.createdAt) < last.start
    /\ last.data.id = to_hex(NewOid(2))

\* The page list(limit, page) is to return: positions (page-1)*limit+1 ..
\* min(page*limit, n) of the collection.
PageOf(limit, page) ==
    SubSeq(docs, (page - 1) * limit + 1, Min(page * limit, Len(docs)))

\* C9 as claimed: for limit > 0 and page >= 1, fetch_users succeeds and
\* returns the documents at positions (page-1)*limit .. min(page*limit, n)-1,
\* none when the page is past the end.
C9_Pagination ==
    (last.op = "fetch" /\ last.limit > 0 /\ last.page >= 1) =>
        /\ last.status = "success"
        /\ Len(last.data.users) = Len(PageOf(last.limit, last.page))
        /\ \A i \in 1..Len(last.data.users) :
              Shows(last.data.users[i], PageOf(last.limit, last.page)[i])

\* C10: a successful fetch_users with limit > 0 and page >= 1 returns as
\* results the number of entities in its page, at most limit, and so not the
\* size of a collection of more than limit documents.
C10_ResultsIsPageLength ==
    (last.op = "fetch" /\ last.status = "success" /\ last.limit > 0 /\ last.page >= 1) =>
        /\ last.data.results = Len(last.data.users)
        /\ last.data.results <= last.limit
        /\ Len(docs) > last.limit => last.data.results # Len(docs)

\* The second of two documents alone is the page.
C10_Witness ==
    /\ last.op = "fetch"
    /\ last.status = "success"
    /\ last.limit = 1 /\ last.page = 2
    /\ Len(docs) = 2
    /\ last.data.results = 1

\* C11: the entity a successful create_user or edit_user returns shows the
\* document as stored when the call returns, after the call's own write: for
\* edit_user the document just patched, for create_user the document found
\* under the new identifier, with whatever another caller's update has made
\* of it since the insert.
C11_ReturnedIsStored ==
    [][/\ (last = NoLast /\ last'.op = "edit" /\ last'.status = "success") =>
            \E i \in 1..Len(docs') :
                /\ docs'[i].id = OidOf(last'.id)
                /\ \A f \in DOMAIN to_document(last'.body) : docs'[i][f] = last'.body[f]
                /\ Shows(last'.data, docs'[i])
       /\ \A t \in Threads :
            (pc[t] = "find_one" /\ pc'[t] = "ready" /\ last'.status = "success") =>
                /\ docs' = docs
                /\ \E i \in 1..Len(docs) :
                    /\ docs[i].id = local[t].new_id
                    /\ Shows(last'.data, docs[i])]_vars

\* create_user has returned a uid its body did not hold: another caller's
\* update came between the insert and the read-back.
C11_Witness ==
    /\ last.op = "create"
    /\ last.status = "success"
    /\ last.data.name = last.body.name
    /\ last.data.uid # last.body.uid

\* The fields an update body sets.
Fields(body) == DOMAIN to_document(body)
\* Document d carries the patch of an update body.
Carries(d, body) == \A f \in Fields(body) : d[f] = body[f]

\* C12: updates of one document are single store calls, applied one after
\* the other in either order.  edit_user of a stored document succeeds when
\* it gives the document no name another document holds, whatever other
\* update was applied before it; the document then carries its patch and
\* still carries the patch of every update on other fields it carried.
C12_DisjointUpdatesMerge ==
    [][(/\ last = NoLast
        /\ last'.op = "edit"
        /\ IsOidString(last'.id)
        /\ OidOf(last'.id) \in Ids
        /\ \A j \in 1..Len(docs) :
              docs[j].id # OidOf(last'.id) => docs[j].name # last'.body.name) =>
        /\ last'.status = "success"
        /\ Len(docs') = Len(docs)
        /\ LET i == Position(OidOf(last'.id))
           IN /\ Carries(docs'[i], last'.body)
              /\ \A b \in UpdateBodies :
                    (Fields(b) \cap Fields(last'.body) = {} /\ Carries(docs[i], b)) =>
                        Carries(docs'[i], b)]_vars

\* The uid of a document has been updated after its name was: no
\* create_user gave it that name.
C12_Witness ==
    /\ last.op = "edit"
    /\ last.status = "success"
    /\ last.body = [name |-> None, uid |-> "u2"]
    /\ \A t \in Threads : pc[t] = "ready"
    /\ wins["bob"] = 0
    /\ \E i \in 1..Len(docs) :
          /\ docs[i].id = OidOf(last.id)
          /\ docs[i].name = "bob"
          /\ docs[i].uid = "u2"

\* A step by which a call returns.
IsReturn == last = NoLast /\ last' # NoLast
\* A step by which caller t's create_user inserts its document.
Inserts(t) == pc[t] = "insert_one" /\ pc'[t] = "find_one"

\* C13: create_user returns NotFoundError exactly from its read-back, when
\* the store answered and the inserted document is not there; the document is
\* there when it is inserted and leaves the collection only by another
\* caller's successful delete_user of its identifier.  The collection changes
\* only by an insert and by a successful edit_user or delete_user, so the
\* only call that fails after having changed it is a create_user whose
\* read-back fails or finds nothing.
C13_ReadBackNotFound ==
    [][/\ \A t \in Threads :
            /\ (pc[t] = "find_one" /\ pc'[t] = "ready") =>
                  (last'.status = "NotFoundError" <=>
                      (~last'.fault /\ local[t].new_id \notin Ids))
            /\ Inserts(t) => local'[t].new_id \in Ids' \ Ids
            /\ (pc[t] = "find_one" /\ local[t].new_id \in Ids \ Ids') =>
                  /\ pc'[t] = "find_one"
                  /\ last'.op = "delete"
                  /\ last'.status = "success"
                  /\ OidOf(last'.id) = local[t].new_id
       /\ (IsReturn /\ last'.op = "create" /\ last'.status = "NotFoundError") =>
            \E t \in Threads :
                /\ pc[t] = "find_one" /\ pc'[t] = "ready"
                /\ last'.err_id = to_hex(local[t].new_id)
                /\ last'.calls = 3
       /\ docs' # docs =>
            \/ \E t \in Threads : Inserts(t)
            \/ IsReturn /\ last'.op \in {"edit", "delete"} /\ last'.status = "success"
       /\ (IsReturn /\ last'.status # "success") => docs' = docs]_vars

\* The read-back found nothing: the new document was deleted after the insert.
C13_Witness ==
    /\ last.op = "create"
    /\ last.status = "NotFoundError"
    /\ last.calls = 3
    /\ ~last.fault
    /\ OidOf(last.err_id) \in Generated \ Ids

\* C14: with one call at a time, every step of a call that returns an error
\* leaves the documents as they were, but for a create_user whose insert
\* succeeded: get_user, edit_user, delete_user and fetch_users that fail
\* change nothing; create_user changes no document before its insert, a
\* failed insert changes none, and a failed create_index or insert leaves at
\* most the index; the document of a successful insert is added to the
\* collection as it was and stays when the read-back fails.
C14_FailureLeavesNothing ==
    [][/\ (IsReturn /\ last'.status # "success" /\ last'.op # "create") =>
            docs' = docs /\ index' = index
       /\ \A t \in Threads :
            /\ (pc[t] = "ready" /\ pc'[t] = "create_index") =>
                  docs' = docs /\ index' = index
            /\ pc[t] = "create_index" =>
                  /\ docs' = docs
                  /\ pc'[t] = "ready" => (last'.status = "MongoQueryError" /\ index' = index)
            /\ (pc[t] = "insert_one" /\ pc'[t] = "ready") =>
                  /\ last'.status \in {"MongoDuplicateError", "MongoQueryError"}
                  /\ docs' = docs /\ index' = index
            /\ Inserts(t) =>
                  /\ Len(docs') = Len(docs) + 1
                  /\ SubSeq(docs', 1, Len(docs)) = docs
                  /\ docs'[Len(docs')].id = local'[t].new_id
            /\ pc[t] = "find_one" =>
                  /\ docs' = docs /\ index' = index
                  /\ last'.status # "success" =>
                        /\ last'.status = "MongoQueryError"
                        /\ local[t].new_id \in Ids']_vars

\* The read-back of a second create_user failed and its document is stored.
C14_Witness ==
    /\ last.op = "create"
    /\ last.status = "MongoQueryError"
    /\ last.calls = 3
    /\ Len(docs) = 2
    /\ docs[2].name = last.body.name /\ docs[2].uid = last.body.uid

\* C15 as claimed: after a successful edit_user made at or after the
\* document's creation, the stored updatedAt is the time of that update, and
\* the identifier and createdAt are as returned.
C15_UpdateRefreshes ==
    (last.op = "edit" /\ last.status = "success") =>
        \E i \in 1..Len(docs) :
            /\ docs[i].id = OidOf(last.id)
            /\ docs[i].createdAt = last.data.createdAt
            /\ Instant(docs[i].createdAt) <= last.datetime =>
                  docs[i].updatedAt = ToBsonDateTime(last.datetime)

\* C16: create_user reaches its insert only from a create_index that
\* succeeded, with the index in place; a create_index that fails makes it
\* return MongoQueryError after that one store call, with no insert, no
\* read-back and the collection as it was; with the index in place already, a
\* successful create_index changes nothing the rest of the call depends on.
C16_IndexBeforeInsert ==
    [][\A t \in Threads :
        /\ (pc[t] # "insert_one" /\ pc'[t] = "insert_one") =>
              pc[t] = "create_index" /\ index'
        /\ pc[t] = "insert_one" => index
        /\ (pc[t] = "create_index" /\ pc'[t] # "insert_one") =>
              /\ pc'[t] = "ready"
              /\ last'.op = "create"
              /\ last'.status = "MongoQueryError"
              /\ last'.calls = 1
              /\ docs' = docs /\ nextId' = nextId /\ index' = index
        /\ (pc[t] = "create_index" /\ pc'[t] = "insert_one" /\ index) =>
              UNCHANGED <<docs, index, nextId, local, wins, last>>]_vars

\* With a document stored and the index in place, create_index failed and
\* create_user returned.
C16_Witness ==
    /\ last.op = "create"
    /\ last.status = "MongoQueryError"
    /\ last.calls = 1
    /\ last.fault
    /\ index
    /\ Len(docs) = 1
    /\ nextId = 1

\* C17 as claimed: a fetch_users during which the store fails, at find or at
\* an item of the cursor, returns MongoQueryError.
C17_ListFailsCleanly ==
    (last.op = "fetch" /\ last.fault) => last.status = "MongoQueryError"

\* The values create_blog is to store for a create body.
PublishedOf(body) == IF body.published = <<>> THEN FALSE ELSE body.published[1]
CategoryOf(body) == IF body.category = <<>> THEN "" ELSE body.category[1]

\* C18: every stored blog document has published and category as concrete
\* values, never absent or null; the document of a successful create_blog
\* holds the body's value where the body has one and false or the empty
\* string where it has none; and mapping a stored document to an entity, in
\* create_blog, get_blog, edit_blog and fetch_blogs, never fails.
C18_BlogDefaults ==
    /\ \A i \in 1..Len(docs) :
          /\ {"published", "category"} \subseteq DOMAIN docs[i]
          /\ docs[i].published \in {Some(TRUE), Some(FALSE)}
          /\ docs[i].category \in {Some("")} \cup {Some(c) : c \in Categories}
    /\ last.status # "panic"
    /\ (last.op = "create" /\ last.status = "success") =>
          /\ last.data.published = PublishedOf(last.body)
          /\ last.data.category = CategoryOf(last.body)
          /\ \E i \in 1..Len(docs) :
                /\ docs[i].id = OidOf(last.data.id)
                /\ docs[i].published = Some(PublishedOf(last.body))
                /\ docs[i].category = Some(CategoryOf(last.body))

\* A second blog was created from a body with neither field and holds the
\* defaults.
C18_Witness ==
    /\ last.op = "create"
    /\ last.status = "success"
    /\ last.body.published = <<>> /\ last.body.category = <<>>
    /\ last.data.published = FALSE /\ last.data.category = ""
    /\ Len(docs) = 2

\* C19: edit_user that sets the name of a stored document to the name
\* another document holds returns MongoQueryError and changes no document;
\* MongoDuplicateError is returned by create_user alone, from its insert.
C19_DuplicateUpdateIsQueryError ==
    [][/\ (/\ IsReturn
           /\ last'.op = "edit"
           /\ IsOidString(last'.id)
           /\ OidOf(last'.id) \in Ids
           /\ ~last'.unserializable
           /\ \E j \in 1..Len(docs) :
                 docs[j].id # OidOf(last'.id) /\ docs[j].name = last'.body.name) =>
            /\ last'.status = "MongoQueryError"
            /\ docs' = docs
       /\ (IsReturn /\ last'.status = "MongoDuplicateError") =>
            /\ last'.op = "create"
            /\ last'.calls = 2
            /\ ~last'.fault
            /\ docs' = docs]_vars

\* The store refused to name the second document as the first.
C19_Witness ==
    /\ last.op = "edit"
    /\ last.status = "MongoQueryError"
    /\ ~last.fault
    /\ Len(docs) = 2
    /\ OidOf(last.id) = docs[2].id
    /\ last.body.name = docs[1].name
    /\ docs[2].name # docs[1].name

\* C20: the identifiers stored change only by the insert of a create_user,
\* which adds one identifier never generated before, and by a successful
\* delete_user, which removes the one it was given; get_user, fetch_users,
\* edit_user and the other steps of create_user add and remove none.
\* delete_user of a well-formed identifier succeeds exactly when a document
\* has it, so of several delete_user calls for one stored identifier the
\* first the store applies succeeds and the others return NotFoundError.
C20_IdsChangeByCreateAndDelete ==
    [][/\ Cardinality(Ids') = Len(docs')
       /\ Ids' # Ids =>
            \/ \E t \in Threads :
                  /\ Inserts(t)
                  /\ local'[t].new_id \notin Generated
                  /\ Ids' = Ids \cup {local'[t].new_id}
            \/ /\ IsReturn
               /\ last'.op = "delete"
               /\ last'.status = "success"
               /\ Ids' = Ids \ {OidOf(last'.id)}
       /\ (IsReturn /\ last'.op \in {"get", "fetch", "edit"}) =>
            Ids' = Ids /\ Len(docs') = Len(docs)
       /\ \A t \in Threads : (pc'[t] # pc[t] /\ ~Inserts(t)) => Ids' = Ids
       /\ (IsReturn /\ last'.op = "delete" /\ IsOidString(last'.id)) =>
            IF OidOf(last'.id) \in Ids
            THEN /\ last'.status = "success"
                 /\ OidOf(last'.id) \notin Ids'
                 /\ Len(docs') = Len(docs) - 1
            ELSE /\ last'.status = "NotFoundError"
                 /\ docs' = docs]_vars

\* A delete_user of an identifier already deleted found nothing, another
\* document being stored.
C20_Witness ==
    /\ last.op = "delete"
    /\ last.status = "NotFoundError"
    /\ OidOf(last.id) \in Generated \ Ids
    /\ Len(docs) = 1

=============================================================================
